---------------------------- MODULE Spec2Model ----------------------------
(***************************************************************************)
(* A model of the Heliocentric Calendar generator                          *)
(* (src/unnamed/part_000, the commented TypeScript source of               *)
(* CalendarGenerator).                                                     *)
(*                                                                         *)
(* Angles are fixed-point integers, UnitsPerDegree units to a degree, so   *)
(* that the value before toFixed(2) and the value after it are both        *)
(* representable.  Instants are integer ticks (the model's milliseconds),  *)
(* TicksPerDay of them to a civil (UTC) day.                               *)
(***************************************************************************)
EXTENDS Integers, Sequences, FiniteSets, TLC

(***************************************************************************)
(* Program constants                                                       *)
(***************************************************************************)
DEGREES_IN_CIRCLE == 360
DEGREES_PER_MONTH == 30
MONTHS_IN_YEAR == 12
MAX_BINARY_SEARCH_ITERATIONS == 100

\* Fixed point: the two decimals toFixed(2) keeps and two guard digits.
UnitsPerDegree == 100 * 100
\* One hundredth of a degree, the grain of toFixed(2).
Hundredth == UnitsPerDegree \div 100
\* DEGREE_PRECISION = 0.001 degrees.
DEGREE_PRECISION == UnitsPerDegree \div 1000
Circle == DEGREES_IN_CIRCLE * UnitsPerDegree

(***************************************************************************)
(* Bounds of the model                                                     *)
(***************************************************************************)
\* Ticks in a civil day (the model's resolution of MILLISECONDS_PER_DAY).
TicksPerDay == 4
\* Last offset of a synthetic solar-day window of the bisection harness.
WinLen == 4
\* Civil days in a civil year.
DaysPerYear == 8
\* generateCalendar calls in one behaviour.
MaxCalls == 3

TicksPerYear == DaysPerYear * TicksPerDay

\* No instant: the null of birthMomentCurrentIteration, an unset value.
NoInstant == 0 - 1

\* An undefined module-level variable or local.
Undefined == [undefined |-> TRUE]

(***************************************************************************)
(* Numeric helpers: JavaScript's %, Math.floor, Math.abs, toFixed(2)       *)
(***************************************************************************)
\* JavaScript's remainder takes the sign of the dividend.
JsRem(a, b) == IF a >= 0 THEN a % b ELSE 0 - ((0 - a) % b)

Abs(x) == IF x >= 0 THEN x ELSE 0 - x

\* parseFloat(x.toFixed(2)) for x >= 0: round to the nearest hundredth, halves up.
ToFixed2(x) == ((x + (Hundredth \div 2)) \div Hundredth) * Hundredth

\* getDegree: ((helio - spring + 360) % 360).toFixed(2)
getDegree(helioLongitude, springEquinoxLongitude) ==
    ToFixed2(JsRem(helioLongitude - springEquinoxLongitude + Circle, Circle))

(***************************************************************************)
(* The day filter and one iteration of the bisection                       *)
(* (generateCalendarYear, the body of its while loop over the days)        *)
(***************************************************************************)
\* A mutant of degreeRangeCoversBirthTarget: the ends of a wrap-around day
\* left out.
degreeRangeCoversStrictly(SolarStartDegree, SolarEndDegree, T) ==
    IF SolarStartDegree <= SolarEndDegree
    THEN T >= SolarStartDegree /\ T <= SolarEndDegree
    ELSE T > SolarStartDegree \/ T < SolarEndDegree

\* degreeRangeCoversBirthTarget
degreeRangeCoversBirthTarget(SolarStartDegree, SolarEndDegree, T) ==
    IF SolarStartDegree <= SolarEndDegree
    THEN T >= SolarStartDegree /\ T <= SolarEndDegree
    ELSE T >= SolarStartDegree \/ T <= SolarEndDegree

\* const mid = low + Math.floor((high - low) / 2)
Mid(low, high) == low + ((high - low) \div 2)

\* A mutant of SearchState: the search begun an instant outside each end of
\* the window.
SearchStateWide(low, high) ==
    [low |-> low - 1, high |-> high + 1, iterations |-> 0, found |-> NoInstant]

\* The state of one bisection: low, high, iterations and the moment found.
SearchState(low, high) ==
    [low |-> low, high |-> high, iterations |-> 0, found |-> NoInstant]

\* while (low <= high && iterations < MAX_BINARY_SEARCH_ITERATIONS)
SearchRunning(st) ==
    /\ st.found = NoInstant
    /\ st.low <= st.high
    /\ st.iterations < MAX_BINARY_SEARCH_ITERATIONS

\* A mutant of BisectStep: the probed instant kept in the interval.
BisectStepKeepsMid(st, testDegree, T, SolarStartDegree, SolarEndDegree) ==
    LET mid == Mid(st.low, st.high)
        it  == st.iterations + 1
    IN  IF Abs(testDegree - T) < DEGREE_PRECISION
        THEN [st EXCEPT !.iterations = it, !.found = mid]
        ELSE IF testDegree < T
        THEN [st EXCEPT !.iterations = it, !.low = mid]
        ELSE [st EXCEPT !.iterations = it, !.high = mid]

\* A mutant of BisectStep: the two halves swapped in the plain branches.
BisectStepSwapped(st, testDegree, T, SolarStartDegree, SolarEndDegree) ==
    LET mid == Mid(st.low, st.high)
        it  == st.iterations + 1
    IN  IF Abs(testDegree - T) < DEGREE_PRECISION
        THEN [st EXCEPT !.iterations = it, !.found = mid]
        ELSE IF testDegree < T
        THEN [st EXCEPT !.iterations = it, !.high = mid - 1]
        ELSE [st EXCEPT !.iterations = it, !.low = mid + 1]

\* One pass through the body of the binary search loop; testDegree is the
\* degree the loop computed at Mid(low, high).
BisectStep(st, testDegree, T, SolarStartDegree, SolarEndDegree) ==
    LET mid == Mid(st.low, st.high)
        it  == st.iterations + 1
    IN  IF Abs(testDegree - T) < DEGREE_PRECISION
        THEN [st EXCEPT !.iterations = it, !.found = mid]
        ELSE IF testDegree < T
        THEN IF /\ SolarStartDegree > SolarEndDegree
                /\ testDegree < SolarEndDegree
                /\ T > SolarStartDegree
             THEN [st EXCEPT !.iterations = it, !.high = mid - 1]
             ELSE [st EXCEPT !.iterations = it, !.low = mid + 1]
        ELSE IF /\ SolarStartDegree > SolarEndDegree
                /\ testDegree > SolarStartDegree
                /\ T < SolarEndDegree
             THEN [st EXCEPT !.iterations = it, !.low = mid + 1]
             ELSE [st EXCEPT !.iterations = it, !.high = mid - 1]


(***************************************************************************)
(* The collaborators: astronomy-engine and moment-timezone.                *)
(* A world w fixes what the ephemeris answers: w.eqTick is the time of day *)
(* of the first March equinox and w.drift the ticks by which the orbital   *)
(* period exceeds the civil year.                                          *)
(***************************************************************************)
Worlds == [eqTick : 0 .. (TicksPerDay - 1), drift : {0, 1, 2}]

\* Ticks in which the Earth goes once around the Sun.
OrbitalPeriod(w) == TicksPerYear + w.drift

\* Units of heliocentric longitude the Earth moves in a tick.
Speed(w) == Circle \div OrbitalPeriod(w)

\* moment's utc().format('YYYY-MM-DD'): the civil date of an instant.
DateOf(t) == t \div TicksPerDay

\* moment's year() of a UTC moment.
YearOf(t) == t \div TicksPerYear

\* Seasons(year).mar_equinox, to the tick.
mar_equinox(w, year) == TicksPerDay + w.eqTick + (year * OrbitalPeriod(w))

jun_solstice(w, year) == mar_equinox(w, year) + (OrbitalPeriod(w) \div 4)

sep_equinox(w, year) == mar_equinox(w, year) + (2 * (OrbitalPeriod(w) \div 4))

dec_solstice(w, year) == mar_equinox(w, year) + (3 * (OrbitalPeriod(w) \div 4))

\* SearchPlanetApsis(Body.Earth, new Date(year, 4, 1)).time: the aphelion.
SearchPlanetApsis(w, year) ==
    mar_equinox(w, year) + ((5 * OrbitalPeriod(w)) \div 16)

\* NextPlanetApsis(Body.Earth, Apsis).time: the perihelion half an orbit on.
NextPlanetApsis(w, apsis) == apsis + (OrbitalPeriod(w) \div 2)

\* Math.atan2(y, x) * RADIANS_TO_DEGREES of HelioVector(Body.Earth, date),
\* in (-180, 180] degrees, the Earth moving Speed(w) units a tick.
HelioVectorAngle(w, t) ==
    LET raw == ((Circle \div 2) + (Speed(w) * (t + (OrbitalPeriod(w) * 4)
                    - mar_equinox(w, 0)))) % Circle
    IN  IF raw > (Circle \div 2) THEN raw - Circle ELSE raw

\* MoonPhase(date): the lunar phase angle, a synodic month of three days.
MoonPhaseAngle(t) == ((Circle \div (3 * TicksPerDay)) * t) % Circle

\* The observer's solar noon as a time of day: 12:00 UTC at longitude 0,
\* one tick earlier for each 360/TicksPerDay degrees east.
NoonTick(obs) == ((TicksPerDay \div 2) + (TicksPerDay * 4) - obs.longitude) % TicksPerDay

\* SearchHourAngle(Body.Sun, observer, 0, date): the first solar noon at or
\* after date.
SearchNoon(obs, date) ==
    date + ((NoonTick(obs) + TicksPerDay - (date % TicksPerDay)) % TicksPerDay)

\* SearchHourAngle(Body.Sun, observer, HOUR_ANGLE_HORIZON, noon, -1 / +1).
SearchHorizonBefore(obs, noon) == noon - (TicksPerDay \div 2)

SearchHorizonAfter(obs, noon) == SearchHorizonBefore(obs, noon) + TicksPerDay

\* new Observer(latitude, longitude, elevation) throws on a latitude outside
\* -90..+90; the longitude is only required to be a number.
LatitudeInRange(latitude) == latitude >= -90 /\ latitude <= 90

\* The zones moment-timezone has data for, with their offsets in ticks.
KnownZones == {"America/New_York", "UTC"}

ZoneOffset(zone) == IF zone = "America/New_York" THEN -1 ELSE 0

(***************************************************************************)
(* getHeliocentricLongitude and its cache                                  *)
(***************************************************************************)
\* (Math.atan2(y, x) * RADIANS_TO_DEGREES + DEGREES_IN_CIRCLE) % DEGREES_IN_CIRCLE
HelioLongitude(w, t) == JsRem(HelioVectorAngle(w, t) + Circle, Circle)

\* A mutant of CacheHit: no lookup finds its key.
CacheNeverHit(c, t) == FALSE

\* cachedValue !== undefined, the key the instant to the millisecond.
CacheHit(c, t) == t \in DOMAIN c

\* The value getHeliocentricLongitude returns with cache c: the cached one
\* when the key is present, the computed one otherwise.
getHeliocentricLongitude(c, w, t) ==
    IF CacheHit(c, t) THEN c[t] ELSE HelioLongitude(w, t)

\* The cache after getHeliocentricLongitude has been called for the instants
\* of S: each missing key is set to the value computed for it.
CacheAfter(c, w, S) ==
    [t \in (DOMAIN c) \cup S |-> getHeliocentricLongitude(c, w, t)]

EmptyCache == [t \in {} |-> 0]

\* How often HelioVector has been called for each instant, after
\* getHeliocentricLongitude was called with cache c for the instants of S:
\* once more for each of them the cache does not hold.
AskedAfter(asked, c, S) ==
    LET missed == {t \in S : ~CacheHit(c, t)}
    IN  [t \in (DOMAIN asked) \cup missed |->
            (IF t \in DOMAIN asked THEN asked[t] ELSE 0)
                + (IF t \in missed THEN 1 ELSE 0)]

(***************************************************************************)
(* getBirthDegree and eventList                                            *)
(***************************************************************************)
\* A mutant of referenceEquinoxDate: the birth year's equinox always.
referenceEquinoxOfBirthYear(w, birthDate) ==
    mar_equinox(w, YearOf(birthDate))

\* The equinox getBirthDegree measures from.
referenceEquinoxDate(w, birthDate) ==
    IF birthDate < mar_equinox(w, YearOf(birthDate))
    THEN mar_equinox(w, YearOf(birthDate) - 1)
    ELSE mar_equinox(w, YearOf(birthDate))

getBirthDegree(c, w, birthDate) ==
    getDegree(getHeliocentricLongitude(c, w, birthDate),
              getHeliocentricLongitude(c, w, referenceEquinoxDate(w, birthDate)))

\* The instants getBirthDegree looks up.
BirthDegreeLookups(w, birthDate) ==
    {referenceEquinoxDate(w, birthDate), birthDate}

eventList(w, year, birth) ==
    [SpringEquinox  |-> mar_equinox(w, year),
     SummerSolstice |-> jun_solstice(w, year),
     AutumnEquinox  |-> sep_equinox(w, year),
     WinterSolstice |-> dec_solstice(w, year),
     SpringEquinox2 |-> mar_equinox(w, year + 1),
     Aphelion       |-> SearchPlanetApsis(w, year),
     Perihelion     |-> NextPlanetApsis(w, SearchPlanetApsis(w, year)),
     Birth          |-> birth]

\* A mutant of equinoxSolsticeEvents: the two apsides left out.
equinoxSolsticeEventsNoApsides(ev) ==
    << [date |-> ev.SpringEquinox,  name |-> "Spring Equinox"],
       [date |-> ev.SummerSolstice, name |-> "Summer Solstice"],
       [date |-> ev.AutumnEquinox,  name |-> "Autumn Equinox"],
       [date |-> ev.WinterSolstice, name |-> "Winter Solstice"] >>

\* equinoxSolsticeEvents, in the order of the source.
equinoxSolsticeEvents(ev) ==
    << [date |-> ev.SpringEquinox,  name |-> "Spring Equinox"],
       [date |-> ev.SummerSolstice, name |-> "Summer Solstice"],
       [date |-> ev.AutumnEquinox,  name |-> "Autumn Equinox"],
       [date |-> ev.WinterSolstice, name |-> "Winter Solstice"],
       [date |-> ev.Aphelion,       name |-> "Aphelion"],
       [date |-> ev.Perihelion,     name |-> "Perihelion"] >>

(***************************************************************************)
(* getDayInfo                                                              *)
(***************************************************************************)
\* A mutant of MoonPhaseLabel: each bin closed at its upper end.
MoonPhaseLabelClosedBins(Moon) ==
    IF Moon >= 0 /\ Moon <= 45 * UnitsPerDegree THEN "New Moon"
    ELSE IF Moon <= 90 * UnitsPerDegree THEN "Waxing Cres."
    ELSE IF Moon <= 135 * UnitsPerDegree THEN "First Quarter"
    ELSE IF Moon <= 180 * UnitsPerDegree THEN "Waxing Gibb."
    ELSE IF Moon <= 225 * UnitsPerDegree THEN "Full Moon"
    ELSE IF Moon <= 270 * UnitsPerDegree THEN "Waning Gibb."
    ELSE IF Moon <= 315 * UnitsPerDegree THEN "Third Quarter"
    ELSE IF Moon <= 360 * UnitsPerDegree THEN "Waning Cres."
    ELSE ""

\* let Phase = ""; if (Moon >= 0 && Moon < NEW_MOON_END) ... (the bins of
\* MOON_PHASE_BOUNDARIES)
MoonPhaseLabel(Moon) ==
    IF Moon >= 0 /\ Moon < 45 * UnitsPerDegree THEN "New Moon"
    ELSE IF Moon >= 45 * UnitsPerDegree /\ Moon < 90 * UnitsPerDegree THEN "Waxing Cres."
    ELSE IF Moon >= 90 * UnitsPerDegree /\ Moon < 135 * UnitsPerDegree THEN "First Quarter"
    ELSE IF Moon >= 135 * UnitsPerDegree /\ Moon < 180 * UnitsPerDegree THEN "Waxing Gibb."
    ELSE IF Moon >= 180 * UnitsPerDegree /\ Moon < 225 * UnitsPerDegree THEN "Full Moon"
    ELSE IF Moon >= 225 * UnitsPerDegree /\ Moon < 270 * UnitsPerDegree THEN "Waning Gibb."
    ELSE IF Moon >= 270 * UnitsPerDegree /\ Moon < 315 * UnitsPerDegree THEN "Third Quarter"
    ELSE IF Moon >= 315 * UnitsPerDegree /\ Moon <= 360 * UnitsPerDegree THEN "Waning Cres."
    ELSE ""

\* A mutant of DeltaOf: a day of exactly the civil length signed '-'.
DeltaOfStrictSign(SolarStart, SolarEnd) ==
    LET TimeInDay == SolarEnd - SolarStart
    IN  [sign |-> IF TimeInDay > TicksPerDay THEN "+" ELSE "-",
         magnitude |-> Abs(TimeInDay - TicksPerDay)]

\* `${sign}${formattedDuration}`, the duration in ticks.
DeltaOf(SolarStart, SolarEnd) ==
    LET TimeInDay == SolarEnd - SolarStart
    IN  [sign |-> IF TimeInDay >= TicksPerDay THEN "+" ELSE "-",
         magnitude |-> Abs(TimeInDay - TicksPerDay)]

getDayInfo(obs, date) ==
    LET SolarNoon  == SearchNoon(obs, date)
        SolarStart == SearchHorizonBefore(obs, SolarNoon)
        SolarEnd   == SearchHorizonAfter(obs, SolarNoon)
    IN  [MoonPhase  |-> MoonPhaseLabel(MoonPhaseAngle(SolarNoon)),
         SolarStart |-> SolarStart,
         SolarNoon  |-> SolarNoon,
         SolarEnd   |-> SolarEnd,
         Delta      |-> DeltaOf(SolarStart, SolarEnd)]


(***************************************************************************)
(* generateCalendarYear: one day of the sweep                              *)
(***************************************************************************)
\* moment's format('YYYY-MM-DD HH:mm:ss') of a UTC moment.
FormatDateTime(t) == [date |-> DateOf(t), time |-> t % TicksPerDay]

\* moment's format('LT'): the time of day alone.
FormatLT(t) == t % TicksPerDay

\* The 12 empty months newCalendar starts with.
\* enum Months
Months ==
    << "Aries", "Taurus", "Gemini", "Cancer", "Leo", "Virgo", "Libra",
       "Scorpio", "Sagittarius", "Capricorn", "Aquarius", "Pisces" >>

EmptyMonths ==
    [m \in 1 .. MONTHS_IN_YEAR |->
        [Month |-> m, Name |-> Months[m], TotalDays |-> 0, Days |-> << >>]]

\* A mutant of newCalendarInit: the year is built on top of the months the
\* module exposes already.
newCalendarOnExposed(exposed) ==
    IF exposed = << >> THEN EmptyMonths ELSE exposed

\* const newCalendar: Month[] = []; for (let m = 1; m <= 12; m++) { ... }
\* whatever the module-level calendar holds.
newCalendarInit(exposed) == EmptyMonths

\* The binary search loop of one candidate day, run to its end: the final
\* search state and the instants it looked up.
RECURSIVE RunSearch(_, _, _, _, _, _, _, _)
RunSearch(st, probes, c, w, springEquinoxLongitude, T, SolarStartDegree, SolarEndDegree) ==
    IF ~SearchRunning(st)
    THEN [st |-> st, probes |-> probes]
    ELSE LET mid == Mid(st.low, st.high)
             testDegree == getDegree(getHeliocentricLongitude(c, w, mid),
                                     springEquinoxLongitude)
         IN  RunSearch(BisectStep(st, testDegree, T, SolarStartDegree, SolarEndDegree),
                       probes \cup {mid}, c, w, springEquinoxLongitude, T,
                       SolarStartDegree, SolarEndDegree)

\* let monthIndex = Math.floor(degree / DEGREES_PER_MONTH);
\* if (monthIndex >= MONTHS_IN_YEAR) monthIndex = 0;
MonthIndexOf(degree) ==
    LET monthIndex == degree \div (DEGREES_PER_MONTH * UnitsPerDegree)
    IN  IF monthIndex >= MONTHS_IN_YEAR THEN 0 ELSE monthIndex

\* A mutant of EventsOfDay: the orbital birthday put in front of the
\* astronomical events of the date instead of replacing them.
EventsOfDayBirthOrbitAdded(ev, finalFoundBirthMoment, currentDate) ==
    LET onDay(e) == DateOf(e.date) = DateOf(currentDate)
        hits == SelectSeq(equinoxSolsticeEvents(ev), onDay)
        rest == [i \in 1 .. Len(hits) |->
                    [name |-> hits[i].name, date |-> FormatDateTime(hits[i].date)]]
    IN  IF DateOf(finalFoundBirthMoment) = DateOf(currentDate)
        THEN << [name |-> "BirthOrbit",
                 date |-> FormatDateTime(finalFoundBirthMoment)] >> \o rest
        ELSE rest

\* The events of a day: the orbital birthday alone when it falls on the
\* day's civil date, otherwise the astronomical events of that date.
EventsOfDay(ev, finalFoundBirthMoment, currentDate) ==
    IF DateOf(finalFoundBirthMoment) = DateOf(currentDate)
    THEN << [name |-> "BirthOrbit", date |-> FormatDateTime(finalFoundBirthMoment)] >>
    ELSE LET onDay(e) == DateOf(e.date) = DateOf(currentDate)
             hits == SelectSeq(equinoxSolsticeEvents(ev), onDay)
         IN  [i \in 1 .. Len(hits) |->
                 [name |-> hits[i].name, date |-> FormatDateTime(hits[i].date)]]

\* A mutant of DayNumber: the days numbered through the sweep, whatever
\* their month.
DayNumberOfSweep(months, monthIndex) ==
    Cardinality({mk \in (DOMAIN months) \X (1 .. (2 * DaysPerYear)) :
                    mk[2] <= Len(months[mk[1]].Days)}) + 1

\* Number: newCalendar[monthIndex].Days.length + 1
DayNumber(months, monthIndex) == Len(months[monthIndex + 1].Days) + 1

\* One pass through the body of the while loop over the days: f is the frame
\* of generateCalendarYear, c the cache, months the array newCalendar names.
SweepDay(f, c, w, obs, months) ==
    LET dayInfo == getDayInfo(obs, f.currentDate)
        SolarStartDegree ==
            getDegree(getHeliocentricLongitude(c, w, dayInfo.SolarStart),
                      f.springEquinoxLongitude)
        SolarEndDegree ==
            getDegree(getHeliocentricLongitude(c, w, dayInfo.SolarEnd),
                      f.springEquinoxLongitude)
        covers == degreeRangeCoversBirthTarget(SolarStartDegree, SolarEndDegree,
                                               f.TRUE_TARGET_BIRTH_DEGREE)
        search == IF covers
                  THEN RunSearch(SearchState(dayInfo.SolarStart, dayInfo.SolarEnd),
                                 {}, c, w, f.springEquinoxLongitude,
                                 f.TRUE_TARGET_BIRTH_DEGREE,
                                 SolarStartDegree, SolarEndDegree)
                  ELSE [st |-> SearchState(dayInfo.SolarStart, dayInfo.SolarEnd),
                        probes |-> {}]
        birthMomentCurrentIteration == search.st.found
        finalFoundBirthMoment ==
            IF birthMomentCurrentIteration # NoInstant
            THEN birthMomentCurrentIteration
            ELSE f.finalFoundBirthMoment
        currentHelioLongitude == getHeliocentricLongitude(c, w, dayInfo.SolarNoon)
        SolarDegree == getDegree(currentHelioLongitude, f.springEquinoxLongitude)
        monthIndex == MonthIndexOf(SolarDegree)
        lookups == {dayInfo.SolarStart, dayInfo.SolarEnd, dayInfo.SolarNoon}
                       \cup search.probes
        day == [Number     |-> DayNumber(months, monthIndex),
                Date       |-> (DateOf(f.currentDate) * TicksPerDay) + (TicksPerDay \div 2),
                SolarStart |-> FormatDateTime(dayInfo.SolarStart),
                SolarNoon  |-> FormatLT(dayInfo.SolarNoon),
                SolarEnd   |-> FormatDateTime(dayInfo.SolarEnd),
                Delta      |-> dayInfo.Delta,
                MoonPhase  |-> dayInfo.MoonPhase,
                SolarDegree |-> SolarDegree,
                Events     |-> EventsOfDay(f.ev, finalFoundBirthMoment, f.currentDate)]
    IN  [frame  |-> [f EXCEPT !.finalFoundBirthMoment = finalFoundBirthMoment,
                              !.currentDate = f.currentDate + TicksPerDay,
                              !.dayCounter = f.dayCounter + 1,
                              !.asked = AskedAfter(f.asked, c, lookups),
                              !.matches = IF birthMomentCurrentIteration # NoInstant
                                          THEN Append(f.matches,
                                                      [day |-> f.dayCounter + 1,
                                                       at  |-> birthMomentCurrentIteration])
                                          ELSE f.matches],
         months |-> [months EXCEPT ![monthIndex + 1].Days = Append(@, day)],
         cache  |-> CacheAfter(c, w, lookups)]

\* A mutant of WithTotalDays: the months left as the sweep left them.
WithoutTotalDays(months) == months

\* newCalendar.forEach((month) => { month.TotalDays = month.Days.length; })
WithTotalDays(months) ==
    [m \in DOMAIN months |-> [months[m] EXCEPT !.TotalDays = Len(months[m].Days)]]


(***************************************************************************)
(* State                                                                   *)
(***************************************************************************)
VARIABLES
    world,      \* what the collaborators answer (fixed for a behaviour)
    pc,         \* where the running generateCalendar call stands
    args,       \* the parameters of the running call
    observer,   \* the module-level observer
    heliocentricLongitudeCache,
    arrays,     \* the array objects: the module-level calendar and the
                \* newCalendar of the running generateCalendarYear
    frame,      \* the locals of the running call
    held,       \* what callers hold: the array each call returned, with the
                \* parameters of the call and the contents they saw
    outcome,    \* how the last call ended
    calls,      \* calls made so far
    search,     \* the bisection harness: a synthetic day and its search
    fn          \* the function harness: an input and the value computed

mainVars == << world, pc, args, observer, heliocentricLongitudeCache, arrays,
               frame, held, outcome, calls >>

vars == << world, pc, args, observer, heliocentricLongitudeCache, arrays,
           frame, held, outcome, calls, search, fn >>

\* let calendar: Month[] = []; let observer: Observer;
MainInit(worlds) ==
    /\ world \in worlds
    /\ pc = "idle"
    /\ args = Undefined
    /\ observer = Undefined
    /\ heliocentricLongitudeCache = EmptyCache
    /\ arrays = [calendar |-> << >>, newCalendar |-> << >>]
    /\ frame = Undefined
    /\ held = << >>
    /\ outcome = [kind |-> "none"]
    /\ calls = 0

(***************************************************************************)
(* generateCalendar                                                        *)
(***************************************************************************)
Years == {2, 3}

\* Birth dates and times, as civil ticks of the zone they are given in.
BirthLocals == {TicksPerYear + 2,
                TicksPerYear + 3,
                TicksPerYear + TicksPerDay + 3,
                (2 * TicksPerYear) + TicksPerDay,
                (2 * TicksPerYear) + (3 * TicksPerDay),
                (2 * TicksPerYear) + (6 * TicksPerDay) + 1}

Zones == {"America/New_York", "Mars/Olympus"}

Latitudes == {41, 95}

\* Observer longitudes, in units of 360/TicksPerDay degrees east.
Longitudes == {-1, 0, 2}

Params == [year : Years, birthLocal : BirthLocals, timezone : Zones,
           latitude : Latitudes, longitude : Longitudes]

\* The catch of generateCalendar: the error is wrapped and thrown again.
Thrown(cause) ==
    [kind |-> "Error", message |-> << "Failed to generate calendar", cause >>]

\* The module-level state a throw leaves behind.
Throw(cause) ==
    /\ pc' = "idle"
    /\ outcome' = Thrown(cause)
    /\ frame' = Undefined
    /\ arrays' = [arrays EXCEPT !.newCalendar = << >>]

\* A call of generateCalendar begins, the limit-th of the behaviour at most.
Begin(a, limit) ==
    /\ pc = "idle"
    /\ calls < limit
    /\ pc' = "observer"
    /\ args' = a
    /\ calls' = calls + 1
    /\ outcome' = [kind |-> "none"]
    /\ frame' = [birthDateTime |-> NoInstant]
    /\ UNCHANGED << world, observer, heliocentricLongitudeCache, arrays, held,
                    search, fn >>

\* The observer a call leaves in the module-level variable.
ObserverSet(old, new) == new

\* observer = new Observer(latitude, longitude, elevation);
NewObserver ==
    /\ pc = "observer"
    /\ IF LatitudeInRange(args.latitude)
       THEN /\ observer' = ObserverSet(observer,
                               [latitude |-> args.latitude,
                                longitude |-> args.longitude, elevation |-> 0])
            /\ pc' = "parse"
            /\ UNCHANGED << outcome, frame, arrays >>
       ELSE /\ Throw("Latitude is out of range")
            /\ UNCHANGED observer
    /\ UNCHANGED << world, args, heliocentricLongitudeCache, held, calls,
                    search, fn >>

\* moment.tz(`${birthDate} ${birthTime}`, 'YYYY-MM-DD HH:mm', timezone).utc()
\* with a zone moment-timezone has data for.
ParseBirth ==
    /\ pc = "parse"
    /\ args.timezone \in KnownZones
    /\ frame' = [frame EXCEPT !.birthDateTime =
                     args.birthLocal - ZoneOffset(args.timezone)]
    /\ pc' = "clear"
    /\ UNCHANGED << world, args, observer, heliocentricLongitudeCache, arrays,
                    held, outcome, calls, search, fn >>

\* The same with a zone it has no data for: the library, which is not part
\* of the source, either reads the time as UTC or throws.
ParseBirthUnknownZone ==
    /\ pc = "parse"
    /\ args.timezone \notin KnownZones
    /\ \/ /\ frame' = [frame EXCEPT !.birthDateTime = args.birthLocal]
          /\ pc' = "clear"
          /\ UNCHANGED << outcome, arrays >>
       \/ Throw("no data for the zone")
    /\ UNCHANGED << world, args, observer, heliocentricLongitudeCache,
                    held, calls, search, fn >>

\* A mutant of CacheCleared: the cache left as the call found it.
CacheKept(c) == c

\* The cache a call starts its lookups with.
CacheCleared(c) == EmptyCache

\* heliocentricLongitudeCache.clear();
ClearCache ==
    /\ pc = "clear"
    /\ heliocentricLongitudeCache' = CacheCleared(heliocentricLongitudeCache)
    /\ pc' = "events"
    /\ UNCHANGED << world, args, observer, arrays, frame, held, outcome, calls,
                    search, fn >>

\* The array generateCalendarYear builds the year in.
newCalendarIsCalendar == "calendar"

\* const newCalendar: Month[] = [];
newCalendarRef == "newCalendar"

\* A mutant of fallbackBirthMoment: no moment until one is found.
fallbackNoMoment(ev) == NoInstant

\* let finalFoundBirthMoment = eventList.Birth.clone();
fallbackBirthMoment(ev) == ev.Birth

\* const events = eventList(year, birthDateTime); and generateCalendarYear up
\* to its while loop.
StartYear ==
    /\ pc = "events"
    /\ LET ev == eventList(world, args.year, frame.birthDateTime)
           c  == heliocentricLongitudeCache
           springEquinoxLongitude ==
               getHeliocentricLongitude(c, world, ev.SpringEquinox)
           c1 == CacheAfter(c, world, {ev.SpringEquinox})
       IN  /\ frame' = [birthDateTime |-> frame.birthDateTime,
                        ev |-> ev,
                        springEquinoxLongitude |-> springEquinoxLongitude,
                        newCalendar |-> newCalendarRef,
                        TRUE_TARGET_BIRTH_DEGREE |-> getBirthDegree(c1, world, ev.Birth),
                        currentDate |-> ev.SpringEquinox,
                        finalFoundBirthMoment |-> fallbackBirthMoment(ev),
                        dayCounter |-> 0,
                        asked |-> AskedAfter(
                                      AskedAfter(EmptyCache, c, {ev.SpringEquinox}),
                                      c1, BirthDegreeLookups(world, ev.Birth)),
                        matches |-> << >>]
           /\ arrays' = [arrays EXCEPT ![newCalendarRef] =
                                           newCalendarInit(arrays.calendar)]
           /\ heliocentricLongitudeCache' =
                  CacheAfter(c1, world, BirthDegreeLookups(world, ev.Birth))
    /\ pc' = "sweep"
    /\ UNCHANGED << world, args, observer, held, outcome, calls, search, fn >>

\* A mutant of SweepRunning: the day of the next equinox swept as well.
SweepRunningThroughEquinoxDay ==
    DateOf(frame.currentDate) <= DateOf(frame.ev.SpringEquinox2)

\* while (currentDate.isBefore(eventList.SpringEquinox2, 'day'))
SweepRunning == DateOf(frame.currentDate) < DateOf(frame.ev.SpringEquinox2)

\* One day of the sweep.
Day ==
    /\ pc = "sweep"
    /\ SweepRunning
    /\ LET r == SweepDay(frame, heliocentricLongitudeCache, world, observer,
                         arrays[frame.newCalendar])
       IN  /\ frame' = r.frame
           /\ arrays' = [arrays EXCEPT ![frame.newCalendar] = r.months]
           /\ heliocentricLongitudeCache' = r.cache
    /\ UNCHANGED << world, pc, args, observer, held, outcome, calls,
                    search, fn >>

\* The end of generateCalendarYear, and the return of generateCalendar:
\*   newCalendar.forEach(...); calendar.length = 0;
\*   calendar.push(...newCalendar); return calendar;
Finish ==
    /\ pc = "sweep"
    /\ ~SweepRunning
    /\ LET a1 == [arrays EXCEPT ![frame.newCalendar] = WithTotalDays(@)]
           a2 == [a1 EXCEPT !.calendar = << >>]
           a3 == [a2 EXCEPT !.calendar = @ \o a2[frame.newCalendar]]
       IN  /\ arrays' = [a3 EXCEPT !.newCalendar = << >>]
           /\ held' = Append(held, [args |-> args, ref |-> "calendar",
                                    saw |-> a3.calendar])
    /\ pc' = "idle"
    /\ outcome' = [kind |-> "returned"]
    /\ frame' = Undefined
    /\ UNCHANGED << world, args, observer, heliocentricLongitudeCache, calls,
                    search, fn >>

\* A collaborator (Seasons, SearchPlanetApsis, SearchHourAngle, MoonPhase,
\* HelioVector) throws where the call stands.
CollaboratorThrows ==
    /\ pc \in {"events", "sweep"}
    /\ pc = "sweep" => SweepRunning
    /\ Throw("ephemeris")
    /\ UNCHANGED << world, args, observer, heliocentricLongitudeCache, held,
                    calls, search, fn >>


\* The steps of a call after its beginning.
Step ==
    \/ NewObserver
    \/ ParseBirth
    \/ ParseBirthUnknownZone
    \/ ClearCache
    \/ StartYear
    \/ Day
    \/ Finish
    \/ CollaboratorThrows

\* One call of generateCalendar from the initial module state, over every
\* world and every parameter.
Init ==
    /\ MainInit(Worlds)
    /\ search = [pc |-> "off"]
    /\ fn = [name |-> "off"]

Next ==
    \/ \E a \in Params : Begin(a, 1)
    \/ Step

Spec == Init /\ [][Next]_vars

\* Up to MaxCalls calls one after the other, over fewer worlds and
\* parameters.
FewWorlds == {[eqTick |-> 3, drift |-> 1]}

FewParams ==
    [year : {2}, birthLocal : {TicksPerYear + 2, (2 * TicksPerYear) + (3 * TicksPerDay)},
     timezone : {"America/New_York"}, latitude : {41}, longitude : {-1, 0}]
    \cup
    [year : {3}, birthLocal : {TicksPerYear + 2}, timezone : Zones,
     latitude : Latitudes, longitude : {0}]

CallsInit ==
    /\ MainInit(FewWorlds)
    /\ search = [pc |-> "off"]
    /\ fn = [name |-> "off"]

CallsNext ==
    \/ \E a \in FewParams : Begin(a, MaxCalls)
    \/ Step

CallsSpec == CallsInit /\ [][CallsNext]_vars

(***************************************************************************)
(* The bisection harness: the day filter and the binary search of          *)
(* generateCalendarYear on a synthetic day.  The day's window is the       *)
(* instants 0 .. WinLen and search.deg gives the rounded degree            *)
(* getDegree(getHeliocentricLongitude(t), springEquinoxLongitude) at each. *)
(***************************************************************************)
Deg(d) == d * UnitsPerDegree

SearchDegrees == {0, Deg(2), Deg(2) + Hundredth, Deg(355), Deg(358), Deg(360)}

Window == 0 .. WinLen

IdleMain ==
    /\ world = [eqTick |-> 0, drift |-> 0]
    /\ pc = "idle"
    /\ args = Undefined
    /\ observer = Undefined
    /\ heliocentricLongitudeCache = EmptyCache
    /\ arrays = [calendar |-> << >>, newCalendar |-> << >>]
    /\ frame = Undefined
    /\ held = << >>
    /\ outcome = [kind |-> "none"]
    /\ calls = 0

SearchInit ==
    /\ IdleMain
    /\ fn = [name |-> "off"]
    /\ \E deg \in [Window -> SearchDegrees], T \in SearchDegrees :
          search = [deg |-> deg, T |-> T, pc |-> "filter",
                    st |-> SearchState(0, WinLen)]

\* if (degreeRangeCoversBirthTarget) { ... }
Filter ==
    /\ search.pc = "filter"
    /\ search' = [search EXCEPT !.pc =
                     IF degreeRangeCoversBirthTarget(search.deg[0],
                                                     search.deg[WinLen], search.T)
                     THEN "loop" ELSE "skipped"]
    /\ UNCHANGED << mainVars, fn >>

\* One iteration of the binary search loop.
Probe ==
    /\ search.pc = "loop"
    /\ SearchRunning(search.st)
    /\ search' = [search EXCEPT !.st =
                     BisectStep(search.st,
                                search.deg[Mid(search.st.low, search.st.high)],
                                search.T, search.deg[0], search.deg[WinLen])]
    /\ UNCHANGED << mainVars, fn >>

\* The loop is left: a break on a match, or its condition false.
Leave ==
    /\ search.pc = "loop"
    /\ ~SearchRunning(search.st)
    /\ search' = [search EXCEPT !.pc = "done"]
    /\ UNCHANGED << mainVars, fn >>

SearchNext == Filter \/ Probe \/ Leave

SearchSpec == SearchInit /\ [][SearchNext]_vars

\* The same harness with the loop going on while it can: the code runs the
\* binary search in one uninterrupted pass.
SearchFairSpec == SearchSpec /\ WF_vars(SearchNext)

(***************************************************************************)
(* The function harness: getDegree applied to sampled longitudes           *)
(***************************************************************************)
LongitudeSamples ==
    {0, (Hundredth \div 2) - 1, Hundredth \div 2, Hundredth, Circle \div 2,
     Circle - Hundredth, (Circle - (Hundredth \div 2)) - 1,
     Circle - (Hundredth \div 2), (Circle - (Hundredth \div 2)) + 1, Circle - 1}

\* Lunar phase angles: each bin boundary, a unit below and above it, and
\* the middle of each bin.
MoonSamples ==
    {a \in UNION {{(45 * k * UnitsPerDegree) - 1, 45 * k * UnitsPerDegree,
                   (45 * k * UnitsPerDegree) + 1,
                   ((45 * k) + 22) * UnitsPerDegree} : k \in 0 .. 8} :
        a >= 0 /\ a <= Circle}

FnInit ==
    /\ IdleMain
    /\ search = [pc |-> "off"]
    /\ \/ \E L \in LongitudeSamples, R \in LongitudeSamples :
             fn = [name |-> "getDegree", L |-> L, R |-> R, out |-> NoInstant]
       \/ \E Moon \in MoonSamples :
             fn = [name |-> "MoonPhase", Moon |-> Moon, applied |-> FALSE,
                   Phase |-> ""]
       \/ \E SolarStart \in 0 .. TicksPerDay,
             length \in (TicksPerDay - 2) .. (TicksPerDay + 2) :
             fn = [name |-> "Delta", SolarStart |-> SolarStart,
                   SolarEnd |-> SolarStart + length, applied |-> FALSE,
                   Delta |-> [sign |-> "", magnitude |-> 0]]

ApplyGetDegree ==
    /\ fn.name = "getDegree"
    /\ fn.out = NoInstant
    /\ fn' = [fn EXCEPT !.out = getDegree(fn.L, fn.R)]
    /\ UNCHANGED << mainVars, search >>

\* const Moon = MoonPhase(...); let Phase = ""; if ... else if ...
ApplyMoonPhaseLabel ==
    /\ fn.name = "MoonPhase"
    /\ ~fn.applied
    /\ fn' = [fn EXCEPT !.applied = TRUE, !.Phase = MoonPhaseLabel(fn.Moon)]
    /\ UNCHANGED << mainVars, search >>

\* const TimeInDay = SolarEnd.diff(SolarStart); ... Delta
ApplyDeltaOf ==
    /\ fn.name = "Delta"
    /\ ~fn.applied
    /\ fn' = [fn EXCEPT !.applied = TRUE,
                        !.Delta = DeltaOf(fn.SolarStart, fn.SolarEnd)]
    /\ UNCHANGED << mainVars, search >>

FnNext == ApplyGetDegree \/ ApplyMoonPhaseLabel \/ ApplyDeltaOf

FnSpec == FnInit /\ [][FnNext]_vars


(***************************************************************************)
(* Reading a calendar                                                      *)
(***************************************************************************)
\* The days of a calendar, each with the bucket holding it: <<m, k>> is the
\* k-th day of the m-th month.
DayKeys(months) ==
    {mk \in (DOMAIN months) \X (1 .. (2 * DaysPerYear)) :
        mk[2] <= Len(months[mk[1]].Days)}

DayAt(months, mk) == months[mk[1]].Days[mk[2]]

HasEvent(day, name) == \E i \in DOMAIN day.Events : day.Events[i].name = name

BirthOrbitDays(months) ==
    {mk \in DayKeys(months) : HasEvent(DayAt(months, mk), "BirthOrbit")}

\* The calendar the module exposes.
calendar == arrays.calendar

(***************************************************************************)
(* C1.  In any generated calendar year at most one DayRecord carries a     *)
(* BirthOrbit event: never two or more, whatever the target degree, the    *)
(* observer and the solar day windows.                                     *)
(***************************************************************************)
C1_AtMostOneBirthOrbit == Cardinality(BirthOrbitDays(calendar)) <= 1

(***************************************************************************)
(* C2.  After generateCalendar completes, the sum of TotalDays over the 12 *)
(* month buckets equals the number of civil days from the date of the      *)
(* year's spring equinox up to the date of the next one: each of those     *)
(* civil days has exactly one DayRecord, in exactly one bucket.            *)
(***************************************************************************)
RECURSIVE SumTotalDays(_, _)
SumTotalDays(months, m) ==
    IF m = 0 THEN 0 ELSE months[m].TotalDays + SumTotalDays(months, m - 1)

\* The civil dates generateCalendar(year, ...) is to sweep in world w.
CivilDaysSwept(w, year) ==
    DateOf(mar_equinox(w, year)) .. (DateOf(mar_equinox(w, year + 1)) - 1)

C2_TotalDaysSumIsDaysSwept ==
    outcome.kind = "returned" =>
        /\ Len(calendar) = MONTHS_IN_YEAR
        /\ SumTotalDays(calendar, Len(calendar))
               = Cardinality(CivilDaysSwept(world, args.year))
        /\ \A d \in CivilDaysSwept(world, args.year) :
               Cardinality({mk \in DayKeys(calendar) :
                               DateOf(DayAt(calendar, mk).Date) = d}) = 1

\* A year of DaysPerYear + 1 civil days has been generated.
C2_Witness ==
    /\ outcome.kind = "returned"
    /\ SumTotalDays(calendar, Len(calendar)) = DaysPerYear + 1
    /\ Cardinality(CivilDaysSwept(world, args.year)) = DaysPerYear + 1

(***************************************************************************)
(* C3.  After generation every DayRecord stored in month bucket i          *)
(* (0-based) has a SolarDegree d with i*30 <= d < (i+1)*30.                *)
(***************************************************************************)
C3_BucketHoldsItsDegrees ==
    \A mk \in DayKeys(calendar) :
        LET d == DayAt(calendar, mk).SolarDegree
            i == mk[1] - 1
        IN  /\ (i * DEGREES_PER_MONTH) * UnitsPerDegree <= d
            /\ d < ((i + 1) * DEGREES_PER_MONTH) * UnitsPerDegree

(***************************************************************************)
(* C4.  For every heliocentric longitude L and reference R, both in        *)
(* [0, 360), getDegree(L, R) lies in [0, 360): it is never negative and    *)
(* never 360.00.                                                           *)
(***************************************************************************)
C4_GetDegreeBelow360 ==
    (fn.name = "getDegree" /\ fn.out # NoInstant) =>
        (fn.out >= 0 /\ fn.out < Circle)

(***************************************************************************)
(* C5.  Two generateCalendar calls with identical arguments return         *)
(* calendars with identical contents, whatever other calls, returning or   *)
(* failing, ran before or between them.                                    *)
(***************************************************************************)
C5_SameArgumentsSameCalendar ==
    \A i, j \in DOMAIN held :
        held[i].args = held[j].args => held[i].saw = held[j].saw

\* Two calls with the same arguments have returned, a call with other
\* arguments having returned between them.
C5_Witness ==
    /\ Len(held) = 3
    /\ held[1].args = held[3].args
    /\ held[2].args # held[1].args
    /\ held[2].saw # held[1].saw

(***************************************************************************)
(* C6.  When a collaborator fails during a generateCalendar call the call  *)
(* ends with an error, and at every moment the module-level calendar holds *)
(* a complete year, the one the last returning call built (or nothing      *)
(* before the first), never a part of the year being built.                *)
(***************************************************************************)
C6_NoPartialCalendar ==
    /\ calendar = IF held = << >> THEN << >> ELSE held[Len(held)].saw
    /\ \A i \in DOMAIN held :
           /\ Len(held[i].saw) = MONTHS_IN_YEAR
           /\ SumTotalDays(held[i].saw, MONTHS_IN_YEAR)
                  = Cardinality(CivilDaysSwept(world, held[i].args.year))
    /\ (pc = "idle" /\ calls > Len(held)) => outcome.kind \in {"Error", "returned"}

\* A call has failed in the ephemeris with days of its year already built,
\* after an earlier call had returned.
C6_Witness ==
    /\ pc = "idle"
    /\ outcome = Thrown("ephemeris")
    /\ held # << >>
    /\ args # held[Len(held)].args
    /\ Cardinality(DOMAIN heliocentricLongitudeCache) > 2 * TicksPerDay

(***************************************************************************)
(* C7.  generateCalendar rejects invalid parameters (a timezone without    *)
(* data, a latitude or longitude out of range) before the observer is      *)
(* assigned, the cache cleared or the ephemeris asked, and reports them as *)
(* a configuration error, distinguishable from an ephemeris failure.       *)
(* Stated for the first call after the module is loaded.                   *)
(***************************************************************************)
\* Longitudes are in units of 360/TicksPerDay degrees: -180..+180 degrees.
LongitudeInRange(longitude) ==
    2 * longitude >= 0 - TicksPerDay /\ 2 * longitude <= TicksPerDay

InvalidParameters(a) ==
    \/ a.timezone \notin KnownZones
    \/ ~LatitudeInRange(a.latitude)
    \/ ~LongitudeInRange(a.longitude)

C7_InvalidParametersRejectedFirst ==
    (calls = 1 /\ InvalidParameters(args)) =>
        /\ observer = Undefined
        /\ heliocentricLongitudeCache = EmptyCache
        /\ pc \in {"observer", "idle"}
        /\ pc = "idle" => outcome.kind = "ConfigurationError"

(***************************************************************************)
(* C8.  The value an earlier generateCalendar call returned is left        *)
(* unchanged by every later call: what a caller holds still has the        *)
(* contents it had when it was returned.                                   *)
(***************************************************************************)
C8_ReturnedValueUnchanged ==
    \A i \in DOMAIN held : arrays[held[i].ref] = held[i].saw

(***************************************************************************)
(* C9.  On a day of the normal case (D_start <= T <= D_end) whose degree   *)
(* is non-decreasing over the instants of its window and takes the value T *)
(* at one of them, the bisection reports a match, at an instant whose      *)
(* degree is within 0.001 of T, in at most 100 iterations.                 *)
(***************************************************************************)
NonDecreasing(deg, from, to) ==
    \A t \in from .. (to - 1) : deg[t] <= deg[t + 1]

TakesTarget == \E t \in Window : search.deg[t] = search.T

NormalCaseDay ==
    /\ search.deg[0] <= search.T
    /\ search.T <= search.deg[WinLen]
    /\ NonDecreasing(search.deg, 0, WinLen)
    /\ TakesTarget

MatchReported ==
    /\ search.st.found # NoInstant
    /\ Abs(search.deg[search.st.found] - search.T) < DEGREE_PRECISION

C9_NormalCaseBisectionMatches ==
    (search.pc # "off" /\ NormalCaseDay) =>
        /\ search.pc # "skipped"
        /\ search.st.iterations <= MAX_BINARY_SEARCH_ITERATIONS
        /\ search.pc = "done" => MatchReported

\* A normal-case day has been searched to a match that took more than one
\* probe, the target strictly inside the day's range.
C9_Witness ==
    /\ search.pc = "done"
    /\ NormalCaseDay
    /\ search.deg[0] < search.T
    /\ search.T < search.deg[WinLen]
    /\ MatchReported
    /\ search.st.iterations > 1

(***************************************************************************)
(* C10.  On a wrap-case day (D_start > D_end) whose degree rises to the    *)
(* 360/0 seam and goes on from 0, for every target T with T >= D_start or  *)
(* T <= D_end (equality included, wherever the seam falls in the window)   *)
(* that the degree takes in the window, the day is a candidate and the     *)
(* bisection reports a match at an instant whose degree is within 0.001    *)
(* of T.                                                                   *)
(***************************************************************************)
\* The degree rises up to instant s, falls to the seam's other side, and
\* rises again up to the end of the window.
WrapCaseDay ==
    /\ search.deg[0] > search.deg[WinLen]
    /\ \E s \in 0 .. (WinLen - 1) :
          /\ NonDecreasing(search.deg, 0, s)
          /\ NonDecreasing(search.deg, s + 1, WinLen)
          /\ search.deg[s] < Circle
    /\ search.T >= search.deg[0] \/ search.T <= search.deg[WinLen]
    /\ TakesTarget

C10_WrapCaseBisectionMatches ==
    (search.pc # "off" /\ WrapCaseDay) =>
        /\ search.pc # "skipped"
        /\ search.pc = "done" => MatchReported

(***************************************************************************)
(* C11.  When the six astronomical events fall on six pairwise distinct    *)
(* civil dates of the sweep, none of them the date of a BirthOrbit day,    *)
(* each event appears on exactly one DayRecord of the generated year, the  *)
(* one of the event's civil date, and no DayRecord carries more than one   *)
(* event.                                                                  *)
(***************************************************************************)
\* The six events of the year a call with arguments a generates, as the
\* ephemeris of world w gives them.
SixEvents(w, a) ==
    << [date |-> mar_equinox(w, a.year),  name |-> "Spring Equinox"],
       [date |-> jun_solstice(w, a.year), name |-> "Summer Solstice"],
       [date |-> sep_equinox(w, a.year),  name |-> "Autumn Equinox"],
       [date |-> dec_solstice(w, a.year), name |-> "Winter Solstice"],
       [date |-> SearchPlanetApsis(w, a.year), name |-> "Aphelion"],
       [date |-> NextPlanetApsis(w, SearchPlanetApsis(w, a.year)),
        name |-> "Perihelion"] >>

DaysOfDate(months, d) ==
    {mk \in DayKeys(months) : DateOf(DayAt(months, mk).Date) = d}

SixEventsOnSixFreeDates(w, a, months) ==
    LET six == SixEvents(w, a)
    IN  /\ \A i, j \in DOMAIN six :
               i # j => DateOf(six[i].date) # DateOf(six[j].date)
        /\ \A i \in DOMAIN six :
               /\ DateOf(six[i].date) \in CivilDaysSwept(w, a.year)
               /\ DaysOfDate(months, DateOf(six[i].date))
                      \cap BirthOrbitDays(months) = {}

C11_EachEventOnItsDay ==
    (outcome.kind = "returned"
        /\ SixEventsOnSixFreeDates(world, args, calendar)) =>
        LET six == SixEvents(world, args)
        IN  /\ \A i \in DOMAIN six :
                   /\ {mk \in DayKeys(calendar) :
                          HasEvent(DayAt(calendar, mk), six[i].name)}
                          = DaysOfDate(calendar, DateOf(six[i].date))
                   /\ Cardinality(DaysOfDate(calendar, DateOf(six[i].date))) = 1
                   /\ \A mk \in DaysOfDate(calendar, DateOf(six[i].date)) :
                          DayAt(calendar, mk).Events
                              = << [name |-> six[i].name,
                                    date |-> FormatDateTime(six[i].date)] >>
            /\ \A mk \in DayKeys(calendar) :
                   Len(DayAt(calendar, mk).Events) <= 1

\* A year has been generated with its six events on six dates and its
\* orbital birthday on a seventh.
C11_Witness ==
    /\ outcome.kind = "returned"
    /\ SixEventsOnSixFreeDates(world, args, calendar)
    /\ Cardinality(BirthOrbitDays(calendar)) = 1

(***************************************************************************)
(* C12.  Every successfully generated calendar consists of exactly 12      *)
(* MonthRecords in order, the k-th having Month = k and the k-th zodiac    *)
(* name, and each MonthRecord's TotalDays equals the length of its Days.   *)
(***************************************************************************)
ZodiacNames ==
    << "Aries", "Taurus", "Gemini", "Cancer", "Leo", "Virgo", "Libra",
       "Scorpio", "Sagittarius", "Capricorn", "Aquarius", "Pisces" >>

C12_TwelveMonthsInOrder ==
    outcome.kind = "returned" =>
        /\ Len(calendar) = 12
        /\ \A k \in 1 .. 12 :
               /\ calendar[k].Month = k
               /\ calendar[k].Name = ZodiacNames[k]
               /\ calendar[k].TotalDays = Len(calendar[k].Days)

\* A year has been generated with a month of two days or more and a month
\* of none.
C12_Witness ==
    /\ outcome.kind = "returned"
    /\ \E k \in 1 .. 12 : Len(calendar[k].Days) >= 2
    /\ \E k \in 1 .. 12 : Len(calendar[k].Days) = 0

(***************************************************************************)
(* C13.  The longitude cache lives for one generation run: it is empty     *)
(* when a generateCalendar call comes to its first longitude lookup, and   *)
(* it is written only by the running call between that point and the       *)
(* call's end, so every value read from it was stored in the same run.     *)
(***************************************************************************)
C13_CacheLivesOneRun ==
    /\ [](pc = "events" => heliocentricLongitudeCache = EmptyCache)
    /\ [][(heliocentricLongitudeCache' # heliocentricLongitudeCache)
              => (pc \in {"clear", "events", "sweep"}
                     /\ (pc = "clear" =>
                            heliocentricLongitudeCache' = EmptyCache))]_vars

\* A call has come to its first lookup after an earlier call, which filled
\* the cache, had returned.
C13_Witness ==
    /\ pc = "events"
    /\ held # << >>
    /\ heliocentricLongitudeCache = EmptyCache

(***************************************************************************)
(* C14.  Within one run getHeliocentricLongitude returns for every instant *)
(* the value the ephemeris gives for it, cached or not; the ephemeris is   *)
(* asked at most once for an instant; and the cache has one entry for each *)
(* instant asked, instants one tick apart being separate entries.          *)
(***************************************************************************)
\* The instants a run can look up: the sweep's windows and the births.
Instants == 0 .. (5 * TicksPerYear)

C14_MemoizedLikeTheEphemeris ==
    pc = "sweep" =>
        /\ \A t \in Instants :
               getHeliocentricLongitude(heliocentricLongitudeCache, world, t)
                   = HelioLongitude(world, t)
        /\ \A t \in DOMAIN frame.asked : frame.asked[t] = 1
        /\ DOMAIN heliocentricLongitudeCache = DOMAIN frame.asked

\* A run has looked up two instants one tick apart, and an instant twice
\* (the end of a day's window is the start of the next day's).
C14_Witness ==
    /\ pc = "sweep"
    /\ frame.dayCounter >= 2
    /\ \E t \in DOMAIN heliocentricLongitudeCache :
           (t + 1) \in DOMAIN heliocentricLongitudeCache
    /\ DOMAIN heliocentricLongitudeCache \subseteq Instants

(***************************************************************************)
(* C15.  The birth degree is getDegree of the longitude at the birth       *)
(* instant and the longitude at E, where E is the spring equinox of the    *)
(* birth year when the birth is at or after that equinox and the spring    *)
(* equinox of the year before when the birth is strictly before it.        *)
(***************************************************************************)
\* The latest spring equinox at or before instant t.
EquinoxAtOrBefore(w, t) ==
    CHOOSE E \in {mar_equinox(w, y) : y \in 0 .. 5} :
        /\ E <= t
        /\ \A y \in 0 .. 5 : mar_equinox(w, y) <= t => mar_equinox(w, y) <= E

C15_BirthDegreeFromEquinoxBefore ==
    pc = "sweep" =>
        LET birth == frame.birthDateTime
            y == YearOf(birth)
            E == IF birth >= mar_equinox(world, y)
                 THEN mar_equinox(world, y)
                 ELSE mar_equinox(world, y - 1)
        IN  /\ E = EquinoxAtOrBefore(world, birth)
            /\ frame.TRUE_TARGET_BIRTH_DEGREE
                   = getDegree(HelioLongitude(world, birth),
                               HelioLongitude(world, E))
            /\ E \in DOMAIN heliocentricLongitudeCache
            /\ \A y2 \in 0 .. 5 :
                   (mar_equinox(world, y2) \in DOMAIN frame.asked
                       /\ mar_equinox(world, y2) < frame.ev.SpringEquinox)
                       => mar_equinox(world, y2) = E

\* A birth degree has been computed for a birth before its year's equinox.
C15_Witness ==
    /\ pc = "sweep"
    /\ frame.birthDateTime < mar_equinox(world, YearOf(frame.birthDateTime))
    /\ frame.TRUE_TARGET_BIRTH_DEGREE > 0

(***************************************************************************)
(* C16.  Every lunar phase angle in [0, 360] is mapped to exactly one of   *)
(* 8 labels by consecutive 45-degree bins, the last one closed at 360; no  *)
(* angle in range gets an empty label.  As stated, with the labels New     *)
(* Moon, Waxing Crescent, First Quarter, Waxing Gibbous, Full Moon, Waning *)
(* Gibbous, Third Quarter, Waning Crescent.                                *)
(***************************************************************************)
\* The 45-degree bin of an angle in [0, 360], 360 itself in the last bin.
MoonBin(Moon) ==
    IF Moon \div (45 * UnitsPerDegree) >= 8
    THEN 8
    ELSE (Moon \div (45 * UnitsPerDegree)) + 1

PhaseNames ==
    << "New Moon", "Waxing Crescent", "First Quarter", "Waxing Gibbous",
       "Full Moon", "Waning Gibbous", "Third Quarter", "Waning Crescent" >>

C16_PhaseNamedByBin ==
    (fn.name = "MoonPhase" /\ fn.applied) =>
        fn.Phase = PhaseNames[MoonBin(fn.Moon)]

(***************************************************************************)
(* C16, amended.  The same bins, with the labels the program gives them:   *)
(* New Moon, Waxing Cres., First Quarter, Waxing Gibb., Full Moon,         *)
(* Waning Gibb., Third Quarter, Waning Cres.                               *)
(***************************************************************************)
PhaseLabels ==
    << "New Moon", "Waxing Cres.", "First Quarter", "Waxing Gibb.",
       "Full Moon", "Waning Gibb.", "Third Quarter", "Waning Cres." >>

C16_PhaseLabelledByBin ==
    (fn.name = "MoonPhase" /\ fn.applied) =>
        fn.Phase = PhaseLabels[MoonBin(fn.Moon)]

\* The label of an angle on a bin boundary has been computed.
C16_Witness ==
    /\ fn.name = "MoonPhase"
    /\ fn.applied
    /\ fn.Moon = 45 * UnitsPerDegree
    /\ fn.Phase = "Waxing Cres."

(***************************************************************************)
(* C17.  For every solar day window the reported length delta, read as a   *)
(* signed number, equals (end - start) less the length of a civil day:     *)
(* '+' with the magnitude when the window is at least a civil day long,    *)
(* '-' with the magnitude when it is shorter, unclamped; a window of       *)
(* exactly a civil day yields +0, and '-0' is never produced.              *)
(***************************************************************************)
SignedDelta(Delta) ==
    IF Delta.sign = "+" THEN Delta.magnitude ELSE 0 - Delta.magnitude

C17_DeltaIsSignedDifference ==
    (fn.name = "Delta" /\ fn.applied) =>
        /\ fn.Delta.sign \in {"+", "-"}
        /\ fn.Delta.magnitude >= 0
        /\ SignedDelta(fn.Delta) = (fn.SolarEnd - fn.SolarStart) - TicksPerDay
        /\ fn.Delta.sign = "+" <=> (fn.SolarEnd - fn.SolarStart) >= TicksPerDay
        /\ ~(fn.Delta.sign = "-" /\ fn.Delta.magnitude = 0)

\* The delta of a window of exactly a civil day has been computed.
C17_Witness ==
    /\ fn.name = "Delta"
    /\ fn.applied
    /\ fn.SolarEnd - fn.SolarStart = TicksPerDay
    /\ fn.Delta = [sign |-> "+", magnitude |-> 0]

(***************************************************************************)
(* C18.  Whenever the bisection reports a match at an instant, the         *)
(* unrounded degree at that instant differs from the unrounded target      *)
(* degree by less than 0.001: the match test works on unrounded degrees.   *)
(***************************************************************************)
\* (helio - spring + 360) % 360, before any rounding.
UnroundedDegree(helioLongitude, springEquinoxLongitude) ==
    JsRem(helioLongitude - springEquinoxLongitude + Circle, Circle)

\* The distance of two degrees around the circle.
DegreesApart(a, b) ==
    IF Abs(a - b) <= Circle - Abs(a - b) THEN Abs(a - b) ELSE Circle - Abs(a - b)

C18_MatchWithinPrecisionUnrounded ==
    pc = "sweep" =>
        \A i \in DOMAIN frame.matches :
            DegreesApart(
                UnroundedDegree(HelioLongitude(world, frame.matches[i].at),
                                frame.springEquinoxLongitude),
                UnroundedDegree(HelioLongitude(world, frame.birthDateTime),
                                HelioLongitude(world,
                                    EquinoxAtOrBefore(world, frame.birthDateTime))))
                < DEGREE_PRECISION

(***************************************************************************)
(* C19.  When the bisection reports a match on more than one day of a      *)
(* sweep the latest match wins: every BirthOrbit event of the finished     *)
(* year carries the instant of the match found on the last matching day,   *)
(* none the instant of an earlier match.                                   *)
(***************************************************************************)
\* The sweep of the running call has processed its last day.
SweepDone == pc = "sweep" /\ ~SweepRunning

C19_LatestMatchWins ==
    (SweepDone /\ frame.matches # << >>) =>
        LET months == arrays[frame.newCalendar]
            last == frame.matches[Len(frame.matches)].at
        IN  \A mk \in BirthOrbitDays(months) :
                DayAt(months, mk).Events[1].date = FormatDateTime(last)

(***************************************************************************)
(* C20.  If no day of the sweep yields a bisection match, the              *)
(* orbital-birthday instant used for event placement is the original birth *)
(* instant on every day of the sweep: the day of the birth's civil date,   *)
(* if the sweep has it, carries BirthOrbit with the birth instant and no   *)
(* other day carries it; and generation completes without an error.        *)
(***************************************************************************)
C20_FallbackIsBirthInstant ==
    /\ (pc = "sweep" /\ frame.matches = << >>) =>
           /\ frame.finalFoundBirthMoment = frame.birthDateTime
           /\ LET months == arrays[frame.newCalendar]
              IN  \A mk \in DayKeys(months) :
                      IF DateOf(DayAt(months, mk).Date) = DateOf(frame.birthDateTime)
                      THEN DayAt(months, mk).Events
                               = << [name |-> "BirthOrbit",
                                     date |-> FormatDateTime(frame.birthDateTime)] >>
                      ELSE ~HasEvent(DayAt(months, mk), "BirthOrbit")
    /\ (SweepDone /\ frame.matches = << >>) => ENABLED Finish

\* A sweep has ended without a match, the day of the birth's civil date
\* among its days.
C20_Witness ==
    /\ SweepDone
    /\ frame.matches = << >>
    /\ BirthOrbitDays(arrays[frame.newCalendar]) # {}

(***************************************************************************)
(* C21.  On a day tagged BirthOrbit the Events sequence contains exactly   *)
(* that one event, even when an equinox, solstice or apsis has the same    *)
(* civil date; on every other day Events contains exactly the astronomical *)
(* events whose civil date equals that day's civil date, in the order of   *)
(* the fixed list.                                                         *)
(***************************************************************************)
\* The astronomical events of civil date d, in the order of the list, as a
\* day shows them.
AstronomicalEventsOn(w, a, d) ==
    LET onDate(e) == DateOf(e.date) = d
        hits == SelectSeq(SixEvents(w, a), onDate)
    IN  [i \in 1 .. Len(hits) |->
            [name |-> hits[i].name, date |-> FormatDateTime(hits[i].date)]]

EventsAsClaimed(w, a, months) ==
    \A mk \in DayKeys(months) :
        LET day == DayAt(months, mk)
        IN  IF HasEvent(day, "BirthOrbit")
            THEN Len(day.Events) = 1
            ELSE day.Events = AstronomicalEventsOn(w, a, DateOf(day.Date))

C21_BirthOrbitAloneElseEventsOfDate ==
    /\ pc = "sweep" => EventsAsClaimed(world, args, arrays[frame.newCalendar])
    /\ outcome.kind = "returned" => EventsAsClaimed(world, args, calendar)

\* A year has been generated with a BirthOrbit day on the civil date of an
\* astronomical event, and another day showing two events of its date.
C21_Witness ==
    /\ outcome.kind = "returned"
    /\ \E mk \in BirthOrbitDays(calendar) :
           AstronomicalEventsOn(world, args, DateOf(DayAt(calendar, mk).Date))
               # << >>
    /\ \E mk \in DayKeys(calendar) :
           /\ ~HasEvent(DayAt(calendar, mk), "BirthOrbit")
           /\ Len(DayAt(calendar, mk).Events) = 2

(***************************************************************************)
(* C22.  A solar day with normalized start and end degrees D_start, D_end  *)
(* is treated as a candidate for target T exactly when                    *)
(* (D_start <= D_end and D_start <= T <= D_end) or                         *)
(* (D_start > D_end and (T >= D_start or T <= D_end)); the bisection is    *)
(* run on a day if and only if it is a candidate.                          *)
(***************************************************************************)
CandidateDay(Dstart, Dend, T) ==
    \/ Dstart <= Dend /\ Dstart <= T /\ T <= Dend
    \/ Dstart > Dend /\ (T >= Dstart \/ T <= Dend)

C22_BisectionRunIffCandidate ==
    search.pc \in {"loop", "skipped", "done"} =>
        LET candidate == CandidateDay(search.deg[0], search.deg[WinLen], search.T)
        IN  /\ search.pc \in {"loop", "done"} <=> candidate
            /\ search.pc = "skipped" =>
                   search.st = SearchState(0, WinLen)
            /\ search.pc = "done" => search.st.iterations >= 1

\* A wrap-around day whose start degree is the target has been searched.
C22_Witness ==
    /\ search.pc = "done"
    /\ search.deg[0] > search.deg[WinLen]
    /\ search.T = search.deg[0]
    /\ search.st.iterations >= 1

(***************************************************************************)
(* C23.  Within one sweep the bisection reports a match on two different   *)
(* days only when those days are adjacent and the target equals the        *)
(* rounded degree at their shared window edge; in particular the first and *)
(* the last day of the sweep never both match the same target.             *)
(***************************************************************************)
\* The solar day window of the k-th day of the running sweep.
WindowOfDay(k) ==
    getDayInfo(observer, frame.ev.SpringEquinox + ((k - 1) * TicksPerDay))

C23_MatchesOnlyOnAdjacentDays ==
    pc = "sweep" =>
        \A i, j \in DOMAIN frame.matches :
            i < j =>
                LET d == frame.matches[i].day
                    e == frame.matches[j].day
                IN  /\ e = d + 1
                    /\ WindowOfDay(d).SolarEnd = WindowOfDay(e).SolarStart
                    /\ getDegree(HelioLongitude(world, WindowOfDay(d).SolarEnd),
                                 frame.springEquinoxLongitude)
                           = frame.TRUE_TARGET_BIRTH_DEGREE

(***************************************************************************)
(* C24.  If the bisection matched on at least one day of the sweep, the    *)
(* finished calendar contains a BirthOrbit event: zero BirthOrbit events   *)
(* occur only when no day matched and the birth-instant fallback was used. *)
(***************************************************************************)
C24_MatchGivesBirthOrbit ==
    SweepDone =>
        /\ frame.matches # << >> =>
               BirthOrbitDays(arrays[frame.newCalendar]) # {}
        /\ BirthOrbitDays(arrays[frame.newCalendar]) = {} =>
               /\ frame.matches = << >>
               /\ frame.finalFoundBirthMoment = frame.ev.Birth

(***************************************************************************)
(* C25.  Every bisection run terminates after at most 100 iterations,      *)
(* either with a match or with no match for that day; in each non-matching *)
(* iteration the interval [low, high] strictly shrinks (mid = low +        *)
(* floor((high - low) / 2) stays within [low, high] and the next bound is  *)
(* mid - 1 or mid + 1), so the loop also ends when low > high.             *)
(***************************************************************************)
\* What one iteration does to the search state.
IterationShrinks ==
    LET st  == search.st
        mid == st.low + ((st.high - st.low) \div 2)
    IN  /\ st.low <= mid
        /\ mid <= st.high
        /\ search'.st.iterations = st.iterations + 1
        /\ \/ search'.st.found = mid
           \/ /\ search'.st.found = NoInstant
              /\ \/ search'.st.low = mid + 1 /\ search'.st.high = st.high
                 \/ search'.st.high = mid - 1 /\ search'.st.low = st.low
              /\ search'.st.high - search'.st.low < st.high - st.low

SearchEnded ==
    /\ search.pc = "done"
    /\ search.st.iterations <= MAX_BINARY_SEARCH_ITERATIONS
    /\ \/ search.st.found # NoInstant
       \/ search.st.low > search.st.high
       \/ search.st.iterations = MAX_BINARY_SEARCH_ITERATIONS

C25_BisectionTerminates ==
    /\ [](search.pc \in {"loop", "done"} =>
             search.st.iterations <= MAX_BINARY_SEARCH_ITERATIONS)
    /\ [][(search.pc = "loop" /\ search'.st # search.st) => IterationShrinks]_vars
    /\ (search.pc = "loop") ~> SearchEnded

\* A search has ended without a match after several iterations, its
\* interval empty.
C25_Witness ==
    /\ search.pc = "done"
    /\ search.st.found = NoInstant
    /\ search.st.low > search.st.high
    /\ search.st.iterations >= 3

(***************************************************************************)
(* C26.  For every target degree T in [0, 360) at least one day of the     *)
(* year-long sweep is classified as a candidate day: the degree ranges     *)
(* [D_start, D_end] of the swept solar day windows together cover the      *)
(* whole circle, leaving no target for which the search is never           *)
(* attempted.                                                              *)
(***************************************************************************)
\* The rounded degree of the running sweep at instant t.
DegreeAt(t) == getDegree(HelioLongitude(world, t), frame.springEquinoxLongitude)

\* The k-th day of the running sweep was a candidate day for target T.
CandidateOn(k, T) ==
    CandidateDay(DegreeAt(WindowOfDay(k).SolarStart),
                 DegreeAt(WindowOfDay(k).SolarEnd), T)

C26_SomeDayIsCandidate ==
    (SweepDone /\ frame.TRUE_TARGET_BIRTH_DEGREE < Circle) =>
        \E k \in 1 .. frame.dayCounter :
            CandidateOn(k, frame.TRUE_TARGET_BIRTH_DEGREE)

(***************************************************************************)
(* C27.  If a DayRecord carries the BirthOrbit event, the orbital-birthday *)
(* instant written in that event lies inside that same day's solar window  *)
(* [SolarStart, SolarEnd]: the tag is placed on the day whose bisection    *)
(* found the instant and not on a neighbouring day that merely shares its  *)
(* civil date.                                                             *)
(***************************************************************************)
\* The instant a 'YYYY-MM-DD HH:mm:ss' string of a day record names.
InstantOf(formatted) == (formatted.date * TicksPerDay) + formatted.time

BirthOrbitInsideWindow(months) ==
    \A mk \in BirthOrbitDays(months) :
        LET day == DayAt(months, mk)
        IN  /\ InstantOf(day.SolarStart) <= InstantOf(day.Events[1].date)
            /\ InstantOf(day.Events[1].date) <= InstantOf(day.SolarEnd)

C27_BirthOrbitInsideItsWindow ==
    /\ pc = "sweep" => BirthOrbitInsideWindow(arrays[frame.newCalendar])
    /\ outcome.kind = "returned" => BirthOrbitInsideWindow(calendar)

(***************************************************************************)
(* C28.  Throughout every bisection run the probed instant mid lies within *)
(* the candidate day's window (SolarStart <= mid <= SolarEnd), so any      *)
(* instant reported as a match for a day lies inside that day's solar      *)
(* window.                                                                 *)
(***************************************************************************)
\* The window of the harness's day is the instants 0 .. WinLen.
C28_ProbesInsideWindow ==
    search.pc \in {"loop", "done"} =>
        /\ 0 <= search.st.low
        /\ search.st.high <= WinLen
        /\ SearchRunning(search.st) =>
               /\ 0 <= Mid(search.st.low, search.st.high)
               /\ Mid(search.st.low, search.st.high) <= WinLen
        /\ search.st.found # NoInstant =>
               /\ 0 <= search.st.found
               /\ search.st.found <= WinLen

\* A search has probed its way to the last instant of the window and
\* matched there.
C28_Witness ==
    /\ search.pc = "done"
    /\ search.st.found = WinLen
    /\ search.st.iterations >= 3

(***************************************************************************)
(* C29.  The month bucket index chosen for successive days of the sweep    *)
(* never decreases: once a day has been appended to bucket i, no later day *)
(* of the same sweep is appended to a bucket j < i (in particular the last *)
(* days of the year are never appended to Aries after Pisces has received  *)
(* days), so every bucket's Days are in civil-date order and calendar      *)
(* order.                                                                  *)
(***************************************************************************)
\* A day of a later civil date is the later day of the sweep.
BucketsNeverDecrease(months) ==
    \A mk, nl \in DayKeys(months) :
        DayAt(months, mk).Date < DayAt(months, nl).Date => mk[1] <= nl[1]

C29_BucketIndexNeverDecreases ==
    /\ pc = "sweep" => BucketsNeverDecrease(arrays[frame.newCalendar])
    /\ outcome.kind = "returned" => BucketsNeverDecrease(calendar)

(***************************************************************************)
(* C30.  In every month bucket, at every point of the sweep and in the     *)
(* final calendar, the k-th DayRecord (k = 1, 2, ...) has Number = k: day  *)
(* numbers within a month start at 1 and are consecutive without gaps or   *)
(* repeats.                                                                *)
(***************************************************************************)
NumberedInOrder(months) ==
    \A m \in DOMAIN months :
        \A k \in 1 .. Len(months[m].Days) : months[m].Days[k].Number = k

C30_DayNumbersCountFromOne ==
    /\ pc = "sweep" => NumberedInOrder(arrays[frame.newCalendar])
    /\ NumberedInOrder(calendar)

\* A year has been generated with a month whose second day is numbered 2,
\* days of later months numbered 1 between its two days.
C30_Witness ==
    /\ outcome.kind = "returned"
    /\ \E m \in DOMAIN calendar :
           /\ Len(calendar[m].Days) >= 2
           /\ calendar[m].Days[2].Number = 2
           /\ \E n \in DOMAIN calendar :
                  /\ n > m
                  /\ Len(calendar[n].Days) >= 1
                  /\ calendar[n].Days[1].Date < calendar[m].Days[2].Date

=============================================================================
